---- MODULE Spec2Model ----
(***************************************************************************)
(* weighted_shuffle.py: a reinforcement-weighted song scheduler for cmus.  *)
(* One invocation of the script (react / previous / score) is one action.  *)
(* The two sqlite databases and the player's queue are the state; the      *)
(* track the player is on ('file' of cmus-remote -Q) is read afresh by     *)
(* every invocation and is an input of each action. Timestamps are         *)
(* datetime.now() and every table is kept here in insertion order, so      *)
(* "ORDER BY timestamp DESC LIMIT 1" is the last row. Columns the code      *)
(* writes and never reads (last_played; status, position, duration of a    *)
(* snapshot) are left out, as is the percentage get_playing_chance puts     *)
(* in the notification body.                                               *)
(***************************************************************************)
EXTENDS Integers, Sequences, FiniteSets

VARIABLES
    song_scores,    \* table song_scores: set of rows [path, score]
    state_changes,  \* table state_changes: sequence of paths, oldest first
    queue_history,  \* table queue_history: sequence of paths, oldest first
    flag_stack,     \* table flag_stack: sequence of rows [flag_id, flag]
    queue,          \* the player's play queue (cmus), front first
    inv,            \* the last invocation: command line and locals
    cmds,           \* external commands the last invocation issued, in order
    logged          \* what the last invocation wrote to the log, in order

vars == <<song_scores, state_changes, queue_history, flag_stack, queue,
          inv, cmds, logged>>

----------------------------------------------------------------------------
\* Configuration (weighted_shuffle.py lines 15-19)

MIN_SCORE == -1
DEFAULT_SCORE == 2
MAX_SCORE == 15
MAX_QUEUE_SIZE == 20
MAX_TRIES == 10

\* Bounds of the model
MaxLog == 2         \* rows the state_changes table may hold
MaxIgnore == 2      \* 'ignore' rows the flag_stack table may hold

Tracks == {"a.mp3", "b.mp3"}
Increments == {13, -13, -17}    \* argv[2] of the score command
Handles == {1, 2}               \* handles the notifier answers with
None == "None"                  \* Python's None in {'path': None}
NoTrack == ""                   \* the empty line ''.split('\n') yields
IndexError == "IndexError"      \* random.choice([]) raises IndexError

\* the player's library listing (save -l -), one path per line
Library == <<"a.mp3", "b.mp3">>

Last(s) == s[Len(s)]
Range(s) == {s[i] : i \in 1..Len(s)}

\* output.strip().split('\n'): an empty output yields one empty line
SplitLines(out) == IF out = <<>> THEN <<NoTrack>> ELSE out

----------------------------------------------------------------------------
\* Score store

HasScore(store, path) == \E row \in store : row.path = path

\* get_score: the value returned
get_score(store, path) ==
    IF HasScore(store, path)
    THEN (CHOOSE row \in store : row.path = path).score
    ELSE DEFAULT_SCORE

\* get_score writing the default row whether or not one exists (INSERT OR REPLACE)
get_score_store_replace(store, path) ==
    {row \in store : row.path # path}
        \cup {[path |-> path, score |-> DEFAULT_SCORE]}

\* get_score: the table afterwards (INSERT only when no row was found)
get_score_store(store, path) ==
    IF HasScore(store, path)
    THEN store
    ELSE store \cup {[path |-> path, score |-> DEFAULT_SCORE]}

\* update_score with an out-of-range sum clamped to the bound instead of rejected
new_score_clamped(score, increment) ==
    IF score + increment > MAX_SCORE THEN MAX_SCORE
    ELSE IF score + increment < MIN_SCORE THEN MIN_SCORE
    ELSE score + increment

\* update_score: new_score
new_score(score, increment) ==
    IF MIN_SCORE <= score + increment /\ score + increment <= MAX_SCORE
    THEN score + increment
    ELSE score

\* update_score: the value returned
update_score(store, path, increment) ==
    new_score(get_score(store, path), increment)

\* update_score with the WHERE clause left off the UPDATE: every row is set
update_score_store_all(store, path, increment) ==
    LET s1 == get_score_store(store, path)
        ns == update_score(store, path, increment)
    IN  {[row EXCEPT !.score = ns] : row \in s1}

\* update_score: the table afterwards (UPDATE ... WHERE path=?)
update_score_store(store, path, increment) ==
    LET s1 == get_score_store(store, path)
        ns == update_score(store, path, increment)
    IN  {IF row.path = path THEN [row EXCEPT !.score = ns] ELSE row : row \in s1}

----------------------------------------------------------------------------
\* Weighted selector

\* 2**score, doubled so that the weight of score -1 (0.5) is the integer 1;
\* the selector only compares r with 0, which doubling leaves alone
weight(score) == 2 ^ (score + 1)

IsSortedDesc(songs) ==
    \A i \in 1..Len(songs) - 1 : songs[i].score >= songs[i + 1].score

\* SELECT ... FROM song_scores ORDER BY score DESC: every order of the rows
\* that is descending in score (the order of equal scores is not specified)
OrderByScoreDesc(store) ==
    {songs \in [1..Cardinality(store) -> store] :
        /\ \A i, j \in 1..Cardinality(store) : i # j => songs[i] # songs[j]
        /\ IsSortedDesc(songs)}

RECURSIVE total_computed_score(_, _)
total_computed_score(songs, n) ==
    IF n = 0 THEN 0 ELSE total_computed_score(songs, n - 1) + weight(songs[n].score)

\* random.uniform(0, total): a real in [0, total]. The loop's outcome depends
\* only on where r lies among the cumulative weights, so the draws are 0 and
\* every cumulative weight (the upper end of each track's interval).
Draws(songs) ==
    {0} \cup {total_computed_score(songs, n) : n \in 1..Len(songs)}

\* the for loop without the running subtraction: each row's weight is taken
\* from the draw itself, not from what the rows before it left
RECURSIVE pick_from_unreduced(_, _, _, _)
pick_from_unreduced(songs, i, r, k) ==
    IF i > Len(songs)
    THEN IF Len(songs) = 0 THEN IndexError ELSE songs[k].path
    ELSE IF r - weight(songs[i].score) <= 0
         THEN songs[i].path
         ELSE pick_from_unreduced(songs, i + 1, r, k)

\* the for loop of get_weighted_shuffled_song from row i on; k is the index
\* random.choice(songs) picks when the loop runs out
RECURSIVE pick_from(_, _, _, _)
pick_from(songs, i, r, k) ==
    IF i > Len(songs)
    THEN IF Len(songs) = 0 THEN IndexError ELSE songs[k].path
    ELSE IF r - weight(songs[i].score) <= 0
         THEN songs[i].path
         ELSE pick_from(songs, i + 1, r - weight(songs[i].score), k)

\* get_weighted_shuffled_song()['path'] for one query result, draw and choice
get_weighted_shuffled_song(songs, r, k) == pick_from(songs, 1, r, k)

\* every outcome get_weighted_shuffled_song()['path'] can have on this store
SelectOutcomes(store) ==
    UNION {{get_weighted_shuffled_song(songs, r, k) :
                r \in Draws(songs),
                k \in 1..(IF Len(songs) = 0 THEN 1 ELSE Len(songs))} :
           songs \in OrderByScoreDesc(store)}

----------------------------------------------------------------------------
\* Player commands and log lines of one invocation

Cmd(op, path) == [op |-> op, path |-> path, id |-> 0, score |-> 0]
Notify(id, score) == [op |-> "notify", path |-> NoTrack, id |-> id, score |-> score]

Picked == "Picked song"
QueueFull == "Queue is full"
AddedToQueue == "Added to queue"
NewSong == "New song"
UpdatedScore == "Updated score"
NoPrevious == "No previous song in queue history"
Prepended == "Prepended to queue"
Dashes == "------------------------"

\* n log lines "Picked song"
PickedLines(n) == [i \in 1..n |-> Picked]

\* one way an invocation part can go: the queue and the commands and log
\* lines it leaves, the retries it made and whether it raised
Run(q, c, l, tries, raised) ==
    [queue |-> q, cmds |-> c, logged |-> l, tries |-> tries, raised |-> raised]

\* the while loop of add_to_queue, on the set of values song_path can have
\* after `tries` re-selections; yields every [path, tries] it can end with
RECURSIVE retry(_, _, _, _)
retry(pending, tries, lines, store) ==
    LET colliding == pending \cap Range(lines)
        accepted == {[path |-> p, tries |-> tries] : p \in pending \ colliding}
        outs == SelectOutcomes(store)
    IN  IF colliding = {} THEN accepted
        ELSE IF tries >= MAX_TRIES
        THEN accepted \cup {[path |-> p, tries |-> tries] : p \in colliding}
        ELSE accepted
             \cup (IF IndexError \in outs
                   THEN {[path |-> IndexError, tries |-> tries]} ELSE {})
             \cup retry(outs \ {IndexError}, tries + 1, lines, store)

\* add_to_queue with the capacity test written > instead of >=
add_to_queue_gt(song_path, q, store) ==
    LET lines == SplitLines(q)
    IN  IF Len(lines) > MAX_QUEUE_SIZE
        THEN {Run(q, <<>>, <<QueueFull>>, 0, FALSE)}
        ELSE {IF e.path = IndexError
              THEN Run(q, <<>>, PickedLines(e.tries), e.tries, TRUE)
              ELSE Run(Append(q, e.path), <<Cmd("enqueue", e.path)>>,
                       PickedLines(e.tries) \o <<AddedToQueue>>, e.tries, FALSE) :
              e \in retry({song_path}, 0, lines, store)}

\* add_to_queue(song_path) on player queue q
add_to_queue(song_path, q, store) ==
    LET lines == SplitLines(q)
    IN  IF Len(lines) >= MAX_QUEUE_SIZE
        THEN {Run(q, <<>>, <<QueueFull>>, 0, FALSE)}
        ELSE {IF e.path = IndexError
              THEN Run(q, <<>>, PickedLines(e.tries), e.tries, TRUE)
              ELSE Run(Append(q, e.path), <<Cmd("enqueue", e.path)>>,
                       PickedLines(e.tries) \o <<AddedToQueue>>, e.tries, FALSE) :
              e \in retry({song_path}, 0, lines, store)}

----------------------------------------------------------------------------
\* Ledger helpers

IgnoreRows(stack) == {i \in 1..Len(stack) : stack[i].flag = "ignore"}
NotificationRows(stack) == {i \in 1..Len(stack) : stack[i].flag = "notification_id"}

Max(S) == CHOOSE x \in S : \A y \in S : y <= x

\* the rowid sqlite gives an INSERT that names no flag_id: largest + 1
NextFlagId(stack) ==
    IF Len(stack) = 0 THEN 1 ELSE Max({stack[i].flag_id : i \in 1..Len(stack)}) + 1

\* DELETE FROM flag_stack WHERE flag_id=?
DeleteFlag(stack, id) == SelectSeq(stack, LAMBDA row : row.flag_id # id)

\* INSERT INTO flag_stack (flag, timestamp) VALUES ('ignore', now)
PushIgnore(stack) ==
    Append(stack, [flag_id |-> NextFlagId(stack), flag |-> "ignore"])

\* lines 179-181 with ORDER BY timestamp ASC: the oldest 'ignore' row goes
Min(S) == CHOOSE x \in S : \A y \in S : x <= y
ConsumeIgnore_oldest(stack) ==
    DeleteFlag(stack, stack[Min(IgnoreRows(stack))].flag_id)

\* handle_state_change lines 179-181: delete the most recent 'ignore' row
ConsumeIgnore(stack) == DeleteFlag(stack, stack[Max(IgnoreRows(stack))].flag_id)

\* main lines 258-262: the handle of the most recent notification_id row, or 0
notification_id(stack) ==
    IF NotificationRows(stack) # {}
    THEN stack[Max(NotificationRows(stack))].flag_id
    ELSE 0

\* main lines 273-276 without the two DELETEs: the new handle is only added
ReplaceNotification_append(stack, old, new) ==
    IF old # new
    THEN Append(stack, [flag_id |-> new, flag |-> "notification_id"])
    ELSE stack

\* main lines 273-276
ReplaceNotification(stack, old, new) ==
    IF old # new
    THEN Append(DeleteFlag(DeleteFlag(stack, old), new),
                [flag_id |-> new, flag |-> "notification_id"])
    ELSE stack

\* handle_state_change line 169
last_state_path(log) == IF Len(log) > 0 THEN Last(log) ELSE None

\* queues the player may hold when the scheduler is first run
InitialQueues ==
    {<<>>, [i \in 1..MAX_QUEUE_SIZE - 1 |-> "a.mp3"]}

\* the command line of an invocation and the locals it ended with: the
\* player's song it read, argv[2], last_state['path'], the tries of
\* add_to_queue, the score get_score returned to update_score and the handle
\* the notifier answered with (0 where the command has no such local)
Invocation(command, file, increment, last_path, tries, score, reply) ==
    [command |-> command, file |-> file, increment |-> increment,
     last_path |-> last_path, tries |-> tries, score |-> score, reply |-> reply]

----------------------------------------------------------------------------
Init ==
    /\ song_scores = {}
    /\ state_changes = <<>>
    /\ queue_history = <<>>
    /\ flag_stack = <<>>
    /\ queue \in InitialQueues
    /\ inv = Invocation("none", NoTrack, 0, None, 0, 0, 0)
    /\ cmds = <<>>
    /\ logged = <<>>

\* handle_state_change with the ignore flag looked up before the same-song exit
ReactSame_consumes_flag(file) ==
    /\ last_state_path(state_changes) = file
    /\ inv' = Invocation("react", file, 0, last_state_path(state_changes), 0, 0, 0)
    /\ cmds' = <<>>
    /\ logged' = <<Dashes>>
    /\ flag_stack' = IF IgnoreRows(flag_stack) # {}
                     THEN ConsumeIgnore(flag_stack) ELSE flag_stack
    /\ UNCHANGED <<song_scores, state_changes, queue_history, queue>>

\* handle_state_change lines 171-173: same song, exit
ReactSame(file) ==
    /\ last_state_path(state_changes) = file
    /\ inv' = Invocation("react", file, 0, last_state_path(state_changes), 0, 0, 0)
    /\ cmds' = <<>>
    /\ logged' = <<Dashes>>
    /\ UNCHANGED <<song_scores, state_changes, queue_history, flag_stack, queue>>

\* handle_state_change lines 175-182: the transition is absorbed by a flag
ReactIgnored(file) ==
    /\ last_state_path(state_changes) # file
    /\ Len(state_changes) < MaxLog
    /\ state_changes' = Append(state_changes, file)
    /\ IgnoreRows(flag_stack) # {}
    /\ flag_stack' = ConsumeIgnore(flag_stack)
    /\ inv' = Invocation("react", file, 0, last_state_path(state_changes), 0, 0, 0)
    /\ cmds' = <<>>
    /\ logged' = <<Dashes>>
    /\ UNCHANGED <<song_scores, queue_history, queue>>

\* handle_state_change lines 188-195: the song chosen, then add_to_queue;
\* library is TRUE when random.random() fell under the threshold
choose_and_add(library, q, store) ==
    IF library
    THEN UNION {add_to_queue(p, q, store) : p \in Range(SplitLines(Library))}
    ELSE UNION {IF p = IndexError
                THEN {Run(q, <<>>, <<>>, 0, TRUE)}
                ELSE {[r EXCEPT !.logged = <<Picked>> \o @] :
                        r \in add_to_queue(p, q, store)} :
                p \in SelectOutcomes(store)}

\* handle_state_change lines 175-214: a genuine transition. An exception
\* ends the invocation; what was committed before it stays.
ReactChanged(file) ==
    /\ last_state_path(state_changes) # file
    /\ Len(state_changes) < MaxLog
    /\ state_changes' = Append(state_changes, file)
    /\ IgnoreRows(flag_stack) = {}
    /\ queue_history' = Append(queue_history, last_state_path(state_changes))
    /\ \E library \in BOOLEAN :
         \E r \in choose_and_add(library, queue, song_scores) :
            /\ queue' = r.queue
            /\ cmds' = r.cmds
            /\ inv' = Invocation("react", file, 0,
                                 last_state_path(state_changes), r.tries, 0, 0)
            /\ IF r.raised
               THEN /\ logged' = r.logged \o <<IndexError>>
                    /\ song_scores' = song_scores
               ELSE /\ logged' = r.logged
                        \o (IF HasScore(song_scores, file)
                            THEN <<>> ELSE <<NewSong>>)
                        \o <<Dashes>>
                    /\ song_scores' = get_score_store(song_scores, file)
    /\ UNCHANGED flag_stack

\* main lines 279-281
React(file) == ReactSame(file) \/ ReactIgnored(file) \/ ReactChanged(file)

\* handle_previous without the len(result) == 0 test: result[0] raises
PreviousEmpty_unchecked ==
    /\ Cardinality(IgnoreRows(flag_stack)) < MaxIgnore
    /\ flag_stack' = PushIgnore(flag_stack)
    /\ Len(queue_history) = 0
    /\ cmds' = <<>>
    /\ logged' = <<IndexError>>
    /\ inv' = Invocation("previous", NoTrack, 0, None, 0, 0, 0)
    /\ UNCHANGED <<song_scores, state_changes, queue_history, queue>>

\* main lines 243-246 with handle_previous lines 218-222: nothing to go back to
PreviousEmpty ==
    /\ Cardinality(IgnoreRows(flag_stack)) < MaxIgnore
    /\ flag_stack' = PushIgnore(flag_stack)
    /\ Len(queue_history) = 0
    /\ cmds' = <<Cmd("restart", NoTrack)>>
    /\ logged' = <<NoPrevious>>
    /\ inv' = Invocation("previous", NoTrack, 0, None, 0, 0, 0)
    /\ UNCHANGED <<song_scores, state_changes, queue_history, queue>>

\* main lines 243-246 with handle_previous lines 224-237; file is the
\* player's current song. DELETE ... ORDER BY timestamp DESC LIMIT 1 removes
\* the most recent row (an sqlite built with UPDATE/DELETE LIMIT support).
PreviousPop(file) ==
    /\ Cardinality(IgnoreRows(flag_stack)) < MaxIgnore
    /\ flag_stack' = PushIgnore(flag_stack)
    /\ Len(queue_history) > 0
    /\ queue_history' = SubSeq(queue_history, 1, Len(queue_history) - 1)
    /\ queue' = <<file>> \o queue
    /\ cmds' = <<Cmd("prepend", file), Cmd("play", Last(queue_history))>>
    /\ logged' = <<Prepended>>
    /\ inv' = Invocation("previous", file, 0, None, 0, 0, 0)
    /\ UNCHANGED <<song_scores, state_changes>>

Previous(file) == PreviousEmpty \/ PreviousPop(file)

\* main lines 248-276: the score command on the player's current song;
\* new_notification_id is the handle the notifier answers with
Score(file, increment, new_notification_id) ==
    /\ song_scores' = update_score_store(song_scores, file, increment)
    /\ flag_stack' = ReplaceNotification(flag_stack, notification_id(flag_stack),
                                         new_notification_id)
    /\ cmds' = <<Notify(notification_id(flag_stack),
                        update_score(song_scores, file, increment))>>
    /\ logged' = (IF HasScore(song_scores, file) THEN <<>> ELSE <<NewSong>>)
                 \o <<UpdatedScore>>
    /\ inv' = Invocation("score", file, increment, None, 0,
                        get_score(song_scores, file), new_notification_id)
    /\ UNCHANGED <<state_changes, queue_history, queue>>

Next ==
    \/ \E file \in Tracks : React(file)
    \/ \E file \in Tracks : Previous(file)
    \/ \E file \in Tracks, increment \in Increments, h \in Handles :
            Score(file, increment, h)

Spec == Init /\ [][Next]_vars

----------------------------------------------------------------------------
\* The weighted selector on its own: get_weighted_shuffled_song applied to
\* score stores of every shape, with every draw of the doubled range. Here
\* inv holds the draw r and the path picked.

MaxSelectScore == 2     \* largest score of the stores drawn

\* stores with a row for some of the tracks, scores MIN_SCORE..MaxSelectScore
SelectStores ==
    {{[path |-> t, score |-> f[t]] : t \in S} :
        S \in SUBSET Tracks, f \in [Tracks -> MIN_SCORE..MaxSelectScore]}

InitSelect ==
    /\ song_scores \in SelectStores
    /\ state_changes = <<>>
    /\ queue_history = <<>>
    /\ flag_stack = <<>>
    /\ queue = <<>>
    /\ inv = [command |-> "none", r |-> 0, picked |-> NoTrack]
    /\ cmds = <<>>
    /\ logged = <<>>

\* one call of get_weighted_shuffled_song: r is a grid point of
\* random.uniform(0, total_computed_score) in units of 0.5
SelectDraw ==
    /\ \E songs \in OrderByScoreDesc(song_scores) :
         \E r \in 0..total_computed_score(songs, Len(songs)) :
           \E k \in 1..(IF Len(songs) = 0 THEN 1 ELSE Len(songs)) :
              inv' = [command |-> "select", r |-> r,
                      picked |-> get_weighted_shuffled_song(songs, r, k)]
    /\ UNCHANGED <<song_scores, state_changes, queue_history, flag_stack,
                   queue, cmds, logged>>

SpecSelect == InitSelect /\ [][SelectDraw]_vars

----------------------------------------------------------------------------
\* add_to_queue on its own: applied to every candidate, on score stores of
\* every shape and on queues the player may hold (the user queues tracks
\* too). Here inv holds the argument and how the call ended.

EnqueueQueues ==
    InitialQueues \cup {<<"a.mp3">>, <<"a.mp3", "b.mp3">>}

InitEnqueue ==
    /\ song_scores \in SelectStores
    /\ state_changes = <<>>
    /\ queue_history = <<>>
    /\ flag_stack = <<>>
    /\ queue \in EnqueueQueues
    /\ inv = [command |-> "none", song_path |-> NoTrack, tries |-> 0,
              raised |-> FALSE]
    /\ cmds = <<>>
    /\ logged = <<>>

\* the call add_to_queue(song_path) on the state drawn
AddToQueue(song_path) ==
    /\ inv.command = "none"
    /\ \E r \in add_to_queue(song_path, queue, song_scores) :
         /\ queue' = r.queue
         /\ cmds' = r.cmds
         /\ logged' = r.logged
         /\ inv' = [command |-> "add_to_queue", song_path |-> song_path,
                    tries |-> r.tries, raised |-> r.raised]
    /\ UNCHANGED <<song_scores, state_changes, queue_history, flag_stack>>

SpecEnqueue == InitEnqueue /\ [][\E song_path \in Tracks : AddToQueue(song_path)]_vars

----------------------------------------------------------------------------
\* Concurrent invocations. Every storage operation opens its own connection
\* and commits (sql, sql_tmp, sql_fetch, sql_fetch_tmp) and every player
\* command is its own subprocess, so an invocation is a sequence of steps
\* and the steps of two invocations interleave. Here inv maps each process
\* to its command line, its position (pc), its locals and the effects it
\* has had so far, in order; cmds and logged are not used.

Procs == {1, 2}

Proc(command, pc, file, last_path, ignore_id, previous_song, issued) ==
    [command |-> command, pc |-> pc, file |-> file, last_path |-> last_path,
     ignore_id |-> ignore_id, previous_song |-> previous_song,
     issued |-> issued]

\* an effect that names a flag row
FlagCmd(op, id) == [op |-> op, path |-> NoTrack, id |-> id, score |-> 0]

Tables(store, log, history, flags, q) ==
    [song_scores |-> store, state_changes |-> log, queue_history |-> history,
     flag_stack |-> flags, queue |-> q]

\* states the two invocations start in: a fresh install; after `previous` on
\* a fresh install; after a react on b.mp3 that queued a.mp3 from the
\* library; after a further react on a.mp3 that queued b.mp3
StartStates ==
    {Tables({}, <<>>, <<>>, <<>>, <<>>),
     Tables({}, <<>>, <<>>, <<[flag_id |-> 1, flag |-> "ignore"]>>, <<>>),
     Tables({[path |-> "b.mp3", score |-> DEFAULT_SCORE]},
            <<"b.mp3">>, <<None>>, <<>>, <<"a.mp3">>),
     Tables({[path |-> "a.mp3", score |-> DEFAULT_SCORE],
             [path |-> "b.mp3", score |-> DEFAULT_SCORE]},
            <<"b.mp3", "a.mp3">>, <<None, "b.mp3">>, <<>>,
            <<"a.mp3", "b.mp3">>)}

\* main line 242 (and line 279 for react): the command line, and the song
\* the react invocation read from the player
StartProcs ==
    {Proc("react", "start", f, None, 0, None, <<>>) : f \in Tracks}
        \cup {Proc("previous", "start", NoTrack, None, 0, None, <<>>)}

InitSteps ==
    /\ \E s \in StartStates :
         /\ song_scores = s.song_scores
         /\ state_changes = s.state_changes
         /\ queue_history = s.queue_history
         /\ flag_stack = s.flag_stack
         /\ queue = s.queue
    /\ inv \in [Procs -> StartProcs]
    /\ cmds = <<>>
    /\ logged = <<>>

At(p, command, pc) == inv[p].command = command /\ inv[p].pc = pc

\* process p moves to pc having had the effects ev
Goto(p, pc, ev) == inv' = [inv EXCEPT ![p].pc = pc, ![p].issued = @ \o ev]

\* handle_state_change lines 161-173: fetch the last snapshot; same song, exit
react_fetch_last(p) ==
    /\ At(p, "react", "start")
    /\ inv' = [inv EXCEPT
                 ![p].last_path = last_state_path(state_changes),
                 ![p].pc = IF last_state_path(state_changes) = inv[p].file
                           THEN "done" ELSE "insert_snapshot"]
    /\ UNCHANGED <<song_scores, state_changes, queue_history, flag_stack,
                   queue, cmds, logged>>

\* line 176 guarded by a second look at the log, as if lines 161-176 were
\* one transaction
react_insert_snapshot_checked(p) ==
    /\ At(p, "react", "insert_snapshot")
    /\ IF last_state_path(state_changes) = inv[p].file
       THEN /\ Goto(p, "done", <<>>)
            /\ UNCHANGED state_changes
       ELSE /\ state_changes' = Append(state_changes, inv[p].file)
            /\ Goto(p, "fetch_flag", <<Cmd("insert_snapshot", inv[p].file)>>)
    /\ UNCHANGED <<song_scores, queue_history, flag_stack, queue, cmds, logged>>

\* line 176: INSERT INTO state_changes
react_insert_snapshot(p) ==
    /\ At(p, "react", "insert_snapshot")
    /\ state_changes' = Append(state_changes, inv[p].file)
    /\ Goto(p, "fetch_flag", <<Cmd("insert_snapshot", inv[p].file)>>)
    /\ UNCHANGED <<song_scores, queue_history, flag_stack, queue, cmds, logged>>

\* lines 179-180: SELECT the most recent 'ignore' row
react_fetch_flag(p) ==
    /\ At(p, "react", "fetch_flag")
    /\ inv' = [inv EXCEPT
                 ![p].ignore_id =
                     IF IgnoreRows(flag_stack) = {} THEN 0
                     ELSE flag_stack[Max(IgnoreRows(flag_stack))].flag_id,
                 ![p].pc = IF IgnoreRows(flag_stack) = {}
                           THEN "push_history" ELSE "delete_flag"]
    /\ UNCHANGED <<song_scores, state_changes, queue_history, flag_stack,
                   queue, cmds, logged>>

\* lines 181-182: DELETE the row fetched (no row, if another invocation
\* deleted it meanwhile) and return
react_delete_flag(p) ==
    /\ At(p, "react", "delete_flag")
    /\ flag_stack' = DeleteFlag(flag_stack, inv[p].ignore_id)
    /\ Goto(p, "done", <<FlagCmd("delete_flag", inv[p].ignore_id)>>)
    /\ UNCHANGED <<song_scores, state_changes, queue_history, queue, cmds, logged>>

\* line 185: INSERT INTO queue_history the path of the snapshot fetched
react_push_history(p) ==
    /\ At(p, "react", "push_history")
    /\ queue_history' = Append(queue_history, inv[p].last_path)
    /\ Goto(p, "enqueue", <<Cmd("push_history", inv[p].last_path)>>)
    /\ UNCHANGED <<song_scores, state_changes, flag_stack, queue, cmds, logged>>

\* lines 188-195: the song chosen and add_to_queue, which ends with one
\* enqueue command, with "Queue is full" or with the selector's exception
react_choose_and_add(p) ==
    /\ At(p, "react", "enqueue")
    /\ \E library \in BOOLEAN :
         \E r \in choose_and_add(library, queue, song_scores) :
            /\ queue' = r.queue
            /\ IF r.raised
               THEN Goto(p, "raised", <<>>)
               ELSE Goto(p, "get_score",
                         IF r.cmds = <<>>
                         THEN <<Cmd("queue_full", NoTrack)>> ELSE r.cmds)
    /\ UNCHANGED <<song_scores, state_changes, queue_history, flag_stack,
                   cmds, logged>>

\* line 214 with get_score lines 90-93: SELECT the row of the path
react_get_score_select(p) ==
    /\ At(p, "react", "get_score")
    /\ Goto(p, IF HasScore(song_scores, inv[p].file)
               THEN "done" ELSE "insert_score", <<>>)
    /\ UNCHANGED <<song_scores, state_changes, queue_history, flag_stack,
                   queue, cmds, logged>>

\* get_score lines 94-96: INSERT the default row; path is the primary key,
\* so the INSERT raises when another invocation has inserted it meanwhile
react_get_score_insert(p) ==
    /\ At(p, "react", "insert_score")
    /\ IF HasScore(song_scores, inv[p].file)
       THEN /\ Goto(p, "raised", <<>>)
            /\ UNCHANGED song_scores
       ELSE /\ song_scores' = song_scores
                \cup {[path |-> inv[p].file, score |-> DEFAULT_SCORE]}
            /\ Goto(p, "done", <<Cmd("insert_score", inv[p].file)>>)
    /\ UNCHANGED <<state_changes, queue_history, flag_stack, queue, cmds, logged>>

ReactStep(p) ==
    \/ react_fetch_last(p)
    \/ react_insert_snapshot(p)
    \/ react_fetch_flag(p)
    \/ react_delete_flag(p)
    \/ react_push_history(p)
    \/ react_choose_and_add(p)
    \/ react_get_score_select(p)
    \/ react_get_score_insert(p)

\* main line 244 left out: handle_previous is entered with no flag pushed
previous_push_ignore_skipped(p) ==
    /\ At(p, "previous", "start")
    /\ Goto(p, "fetch_history", <<>>)
    /\ UNCHANGED <<song_scores, state_changes, queue_history, flag_stack,
                   queue, cmds, logged>>

\* main line 244: INSERT the 'ignore' row, before handle_previous is called
previous_push_ignore(p) ==
    /\ At(p, "previous", "start")
    /\ flag_stack' = PushIgnore(flag_stack)
    /\ Goto(p, "fetch_history", <<FlagCmd("push_ignore", NextFlagId(flag_stack))>>)
    /\ UNCHANGED <<song_scores, state_changes, queue_history, queue, cmds, logged>>

\* handle_previous lines 218-224: SELECT the most recent history row
previous_fetch_history(p) ==
    /\ At(p, "previous", "fetch_history")
    /\ inv' = [inv EXCEPT
                 ![p].previous_song = IF Len(queue_history) = 0 THEN None
                                      ELSE Last(queue_history),
                 ![p].pc = IF Len(queue_history) = 0
                           THEN "restart" ELSE "delete_history"]
    /\ UNCHANGED <<song_scores, state_changes, queue_history, flag_stack,
                   queue, cmds, logged>>

\* lines 220-222: cmus-remote -r
previous_restart(p) ==
    /\ At(p, "previous", "restart")
    /\ Goto(p, "done", <<Cmd("restart", NoTrack)>>)
    /\ UNCHANGED <<song_scores, state_changes, queue_history, flag_stack,
                   queue, cmds, logged>>

\* lines 227-230: read the player's current song, then DELETE the most
\* recent history row (no row, if another invocation emptied the table)
previous_delete_history(p, file) ==
    /\ At(p, "previous", "delete_history")
    /\ queue_history' = SubSeq(queue_history, 1, Len(queue_history) - 1)
    /\ inv' = [inv EXCEPT
                 ![p].file = file,
                 ![p].pc = "prepend",
                 ![p].issued = @ \o
                     <<Cmd("pop_history", IF Len(queue_history) = 0 THEN NoTrack
                                          ELSE Last(queue_history))>>]
    /\ UNCHANGED <<song_scores, state_changes, flag_stack, queue, cmds, logged>>

\* lines 233-234: add -Q puts the current song at the front of the queue
previous_prepend(p) ==
    /\ At(p, "previous", "prepend")
    /\ queue' = <<inv[p].file>> \o queue
    /\ Goto(p, "play", <<Cmd("prepend", inv[p].file)>>)
    /\ UNCHANGED <<song_scores, state_changes, queue_history, flag_stack,
                   cmds, logged>>

\* line 237: player-play the song fetched at line 218
previous_play(p) ==
    /\ At(p, "previous", "play")
    /\ Goto(p, "done", <<Cmd("play", inv[p].previous_song)>>)
    /\ UNCHANGED <<song_scores, state_changes, queue_history, flag_stack,
                   queue, cmds, logged>>

PreviousStep(p) ==
    \/ previous_push_ignore(p)
    \/ previous_fetch_history(p)
    \/ previous_restart(p)
    \/ \E file \in Tracks : previous_delete_history(p, file)
    \/ previous_prepend(p)
    \/ previous_play(p)

NextSteps == \E p \in Procs : ReactStep(p) \/ PreviousStep(p)

SpecSteps == InitSteps /\ [][NextSteps]_vars

----------------------------------------------------------------------------
\* Properties

Rows(store, path) == {row \in store : row.path = path}
InRange(x) == MIN_SCORE <= x /\ x <= MAX_SCORE
Raised == IndexError \in Range(logged)

\* every stored score lies in [MIN_SCORE, MAX_SCORE]
ScoresInRange == \A row \in song_scores : InRange(row.score)

\* a score command returns (shows in its notification) and stores s+d when
\* that lies in range and s otherwise, s being the score get_score gave it
AdjustStep ==
    inv'.command = "score" =>
        LET s == inv'.score
            d == inv'.increment
            result == IF InRange(s + d) THEN s + d ELSE s
        IN  /\ cmds'[1].score = result
            /\ Rows(song_scores', inv'.file)
                    = {[path |-> inv'.file, score |-> result]}

\* C1: update_score returns and stores s+d when MIN_SCORE <= s+d <= MAX_SCORE
\* and s unchanged otherwise (rejected, not clamped), and every stored score
\* lies in [MIN_SCORE, MAX_SCORE] after any sequence of react, previous and
\* score operations.
C1_AdjustRejectsOutOfRange == [](ScoresInRange) /\ [][AdjustStep]_vars

\* C1 witness: a score command whose sum fell outside the range has run and
\* left the score as it was
C1_Witness ==
    /\ inv.command = "score"
    /\ ~InRange(inv.score + inv.increment)
    /\ cmds[1].score = inv.score
    /\ Rows(song_scores, inv.file) = {[path |-> inv.file, score |-> inv.score]}

\* C2: a react whose observed path equals the path of the most recent
\* state_changes row changes no table and issues no player command, whatever
\* flags are pending.
C2_SamePathNoMutation ==
    [][(/\ inv'.command = "react"
        /\ Len(state_changes) > 0
        /\ inv'.file = Last(state_changes))
       => /\ UNCHANGED <<state_changes, queue_history, flag_stack,
                         song_scores, queue>>
          /\ cmds' = <<>>]_vars

\* C2 witness: a react on the unchanged path has run while an ignore flag
\* was pending
C2_Witness ==
    /\ inv.command = "react"
    /\ inv.file = inv.last_path
    /\ Len(state_changes) > 0
    /\ Last(state_changes) = inv.file
    /\ IgnoreRows(flag_stack) # {}

\* C3: the react that follows a previous command deletes the ignore flag that
\* command pushed and pushes no history and enqueues nothing, whatever the
\* observed path is.
C3_NextReactConsumesFlag ==
    [][(inv.command = "previous" /\ inv'.command = "react")
       => /\ flag_stack' = ConsumeIgnore(flag_stack)
          /\ queue_history' = queue_history
          /\ queue' = queue
          /\ cmds' = <<>>]_vars

\* C4: the weighted selector never raises: no invocation ends with the
\* IndexError of random.choice on an empty list.
C4_SelectorNeverRaises == ~Raised

\* C5: the flag stack never holds more than one ignore flag.
C5_AtMostOneIgnore == Cardinality(IgnoreRows(flag_stack)) <= 1

\* C6: the flag stack never holds more than one notification_id flag, and
\* when a score command has ended that flag exists and carries the handle
\* the notifier answered with.
C6_OneNotificationFlag ==
    /\ Cardinality(NotificationRows(flag_stack)) <= 1
    /\ inv.command = "score" =>
        {flag_stack[i].flag_id : i \in NotificationRows(flag_stack)} = {inv.reply}

\* C6 witness: a score command has ended whose notifier answered with a
\* handle other than the remembered one it was sent
C6_Witness ==
    /\ inv.command = "score"
    /\ cmds[1].id # 0
    /\ cmds[1].id # inv.reply
    /\ notification_id(flag_stack) = inv.reply

\* C7: a react that appends its observed path to state_changes and ends
\* without an exception leaves exactly one song_scores row for that path.
C7_ObservedTrackScored ==
    [][(/\ inv'.command = "react"
        /\ state_changes' # state_changes
        /\ IndexError \notin Range(logged'))
       => Cardinality(Rows(song_scores', inv'.file)) = 1]_vars

\* C8: a react that finds MAX_QUEUE_SIZE or more entries in the player's
\* queue issues no player command and leaves the queue as it was.
C8_FullQueueNoCommand ==
    [][(inv'.command = "react" /\ Len(queue) >= MAX_QUEUE_SIZE)
       => (cmds' = <<>> /\ queue' = queue)]_vars

\* C8 witness: add_to_queue has found the queue full and given up
C8_Witness ==
    /\ inv.command = "react"
    /\ QueueFull \in Range(logged)
    /\ Len(queue) >= MAX_QUEUE_SIZE
    /\ cmds = <<>>

\* C9: previous on an empty history stack issues the restart command and
\* nothing else, and the history stack stays empty.
C9_EmptyHistoryRestarts ==
    [][(inv'.command = "previous" /\ Len(queue_history) = 0)
       => /\ cmds' = <<Cmd("restart", NoTrack)>>
          /\ queue_history' = <<>>
          /\ queue' = queue]_vars

\* C9 witness: previous has run on an empty history stack
C9_Witness ==
    /\ inv.command = "previous"
    /\ cmds = <<Cmd("restart", NoTrack)>>
    /\ queue_history = <<>>
    /\ NoPrevious \in Range(logged)

\* no path has two rows
OneRowPerPath ==
    \A row1, row2 \in song_scores : row1.path = row2.path => row1 = row2

\* get_score at the end of a react that got past add_to_queue (line 214)
GetScoreInReact ==
    (/\ inv'.command = "react"
     /\ queue_history' # queue_history
     /\ IndexError \notin Range(logged'))
    => song_scores' =
         IF Rows(song_scores, inv'.file) = {}
         THEN song_scores \cup {[path |-> inv'.file, score |-> DEFAULT_SCORE]}
         ELSE song_scores

\* get_score at the start of update_score (line 99): the score it returns,
\* the rows of other paths kept, and a row for no path but the one asked for
GetScoreInUpdate ==
    inv'.command = "score"
    => /\ inv'.score = IF Rows(song_scores, inv'.file) = {}
                       THEN DEFAULT_SCORE
                       ELSE (CHOOSE row \in Rows(song_scores, inv'.file) : TRUE).score
       /\ \A row \in song_scores : row.path # inv'.file => row \in song_scores'
       /\ {row.path : row \in song_scores'}
              = {row.path : row \in song_scores} \cup {inv'.file}

\* C10: get_score adds exactly one row with DEFAULT_SCORE for a path that
\* has none and returns DEFAULT_SCORE; for a path that has a row it returns
\* the stored score and changes nothing; no path ever has two rows.
C10_GetOrInit ==
    [](OneRowPerPath) /\ [][GetScoreInReact /\ GetScoreInUpdate]_vars

\* C10 witness: a react has ended by creating the row of a track it saw for
\* the first time
C10_Witness ==
    /\ inv.command = "react"
    /\ NewSong \in Range(logged)
    /\ Rows(song_scores, inv.file) = {[path |-> inv.file, score |-> DEFAULT_SCORE]}

\* the draws of the grid 1..total that select the track of row i; grid point
\* r stands for the reals in (r - 1, r], which all select what r selects,
\* the cumulative weights being whole numbers of half units
DrawsSelecting(songs, i) ==
    {r \in 1..total_computed_score(songs, Len(songs)) :
        get_weighted_shuffled_song(songs, r, 1) = songs[i].path}

\* C11: for a non-empty store the draws that select track i measure exactly
\* 2^score_i (2^(score_i + 1) half units), in whatever descending order the
\* rows come, and every draw selects a track that has a row in the store.
C11_SelectionProportional ==
    song_scores # {} =>
        /\ \A songs \in OrderByScoreDesc(song_scores) :
             \A i \in 1..Len(songs) :
                Cardinality(DrawsSelecting(songs, i)) = 2 ^ (songs[i].score + 1)
        /\ inv.command = "select"
             => inv.picked \in {row.path : row \in song_scores}

\* C11 witness: on scores {a: 0, b: 1} a draw has selected b, and twice as
\* many draws select b as select a
C11_Witness ==
    /\ song_scores = {[path |-> "a.mp3", score |-> 0],
                      [path |-> "b.mp3", score |-> 1]}
    /\ inv.command = "select"
    /\ inv.picked = "b.mp3"
    /\ \A songs \in OrderByScoreDesc(song_scores) :
         Cardinality(DrawsSelecting(songs, 1))
            = 2 * Cardinality(DrawsSelecting(songs, 2))

\* a react step that found a path other than the last logged one and no
\* pending ignore flag
GenuineReact ==
    /\ inv'.command = "react"
    /\ last_state_path(state_changes) # inv'.file
    /\ IgnoreRows(flag_stack) = {}

\* the selection-and-enqueue attempts a react made: add_to_queue ends with
\* exactly one of the lines "Queue is full" and "Added to queue"
EnqueueAttempts(l) ==
    Cardinality({i \in 1..Len(l) : l[i] \in {QueueFull, AddedToQueue}})

\* C12: a react that sees a path other than the last logged one, with no
\* ignore flag pending, appends the snapshot to the log, pushes exactly one
\* history entry holding last.path, makes exactly one selection-and-enqueue
\* attempt and then leaves a score record for the snapshot's path.
C12_GenuineTransition ==
    [][GenuineReact =>
          /\ state_changes' = Append(state_changes, inv'.file)
          /\ queue_history'
                = Append(queue_history, last_state_path(state_changes))
          /\ EnqueueAttempts(logged') = 1
          /\ Cardinality(Rows(song_scores', inv'.file)) = 1]_vars

\* a react step that found a path other than the last logged one while an
\* ignore flag was pending
AbsorbedReact ==
    /\ inv'.command = "react"
    /\ last_state_path(state_changes) # inv'.file
    /\ IgnoreRows(flag_stack) # {}

\* the stack without its row at position i
WithoutRow(stack, i) ==
    [j \in 1..Len(stack) - 1 |-> IF j < i THEN stack[j] ELSE stack[j + 1]]

\* C13: a react that sees a path other than the last logged one while an
\* ignore flag is pending appends the snapshot to the log, deletes exactly
\* one flag row, the most recent ignore row, and leaves every other flag row
\* (each notification_id row among them), the history stack, the score store
\* and the player queue unchanged, issuing no player command.
C13_AbsorbedTransition ==
    [][AbsorbedReact =>
          /\ state_changes' = Append(state_changes, inv'.file)
          /\ flag_stack' = WithoutRow(flag_stack, Max(IgnoreRows(flag_stack)))
          /\ queue_history' = queue_history
          /\ song_scores' = song_scores
          /\ queue' = queue
          /\ cmds' = <<>>]_vars

\* C13 witness: a react was absorbed while two ignore flags were pending (one
\* is left) with a notification_id row and a score record in place
C13_Witness ==
    /\ inv.command = "react"
    /\ inv.file # inv.last_path
    /\ logged = <<Dashes>>
    /\ Cardinality(IgnoreRows(flag_stack)) = 1
    /\ NotificationRows(flag_stack) # {}
    /\ song_scores # {}

\* a call of add_to_queue that found the queue below capacity
EnqueueBelowCapacity ==
    /\ inv'.command = "add_to_queue"
    /\ Len(SplitLines(queue)) < MAX_QUEUE_SIZE

\* the call re-selected at most MAX_TRIES times and issued exactly one
\* enqueue command, for an already queued track only after MAX_TRIES
\* re-selections
OneEnqueue ==
    /\ inv'.tries <= MAX_TRIES
    /\ Len(cmds') = 1
    /\ cmds'[1].op = "enqueue"
    /\ queue' = Append(queue, cmds'[1].path)
    /\ cmds'[1].path \in Range(queue) => inv'.tries = MAX_TRIES

\* C14: with the queue below capacity add_to_queue re-selects at most 10
\* times and issues exactly one enqueue command; the track enqueued is
\* already queued only if the candidate and all 10 re-selections collided.
C14_BoundedRetryOneEnqueue == [][EnqueueBelowCapacity => OneEnqueue]_vars

\* the effects process p has had, by name, in order
OpsOf(p) == [i \in 1..Len(inv[p].issued) |-> inv[p].issued[i].op]

HistoryOps == {"push_history", "pop_history"}

\* a `previous` invocation issues no player command before its ignore flag
\* is in the table, and one that found a history entry ends having pushed
\* the flag, removed the top entry, prepended the current song and played
\* the entry it fetched, in that order; the entry removed is the one played
\* unless another invocation changed the history meanwhile
PreviousInOrder ==
    \A p \in Procs :
        inv[p].command = "previous" =>
            /\ \A i \in 1..Len(inv[p].issued) :
                  inv[p].issued[i].op \in {"restart", "prepend", "play"}
                      => i > 1 /\ inv[p].issued[1].op = "push_ignore"
            /\ inv[p].pc = "done" /\ "pop_history" \in Range(OpsOf(p)) =>
                  /\ OpsOf(p) = <<"push_ignore", "pop_history", "prepend", "play">>
                  /\ inv[p].issued[3].path = inv[p].file
                  /\ inv[p].issued[4].path = inv[p].previous_song
                  /\ (\A q \in Procs \ {p} :
                         Range(OpsOf(q)) \cap HistoryOps = {})
                        => inv[p].issued[2].path = inv[p].issued[4].path

\* a step of a `previous` invocation leaves the snapshot log and the score
\* store alone, changes the history only by removing its most recent entry
\* and the queue only by putting the current song at its front
PreviousFrame ==
    \A p \in Procs :
        inv[p].command = "previous" /\ inv'[p] # inv[p] =>
            /\ state_changes' = state_changes
            /\ song_scores' = song_scores
            /\ IF inv[p].pc = "delete_history" /\ Len(queue_history) > 0
               THEN queue_history = Append(queue_history', Last(queue_history))
               ELSE queue_history' = queue_history
            /\ IF inv[p].pc = "prepend"
               THEN queue' = <<inv'[p].file>> \o queue
               ELSE queue' = queue

\* C15: `previous` with a non-empty history pushes the ignore flag before it
\* issues any player command, removes exactly the most recent history entry,
\* prepends the player's current song to the queue and then plays the popped
\* entry, in that order, and changes neither the snapshot log nor the score
\* store.
C15_PreviousPopsAndPlays == [](PreviousInOrder) /\ [][PreviousFrame]_vars

\* C15 witness: a `previous` invocation has ended having popped and played
\* b.mp3, the history keeping its older entry
C15_Witness ==
    \E p \in Procs :
        /\ inv[p].command = "previous"
        /\ inv[p].pc = "done"
        /\ inv[p].issued[2] = Cmd("pop_history", "b.mp3")
        /\ inv[p].issued[4] = Cmd("play", "b.mp3")
        /\ queue_history = <<None>>
        /\ Head(queue) = inv[p].file

\* C16: no operation deletes a score record; the score of an existing record
\* changes only in a score command and only for the player's current song;
\* react adds at most one record, for the song it observed and with the
\* default score, and previous leaves the store as it is.
C16_ScoreStoreFrame ==
    [][/\ \A row \in song_scores :
            /\ HasScore(song_scores', row.path)
            /\ row \notin song_scores'
                  => inv'.command = "score" /\ row.path = inv'.file
       /\ inv'.command = "react"
            => song_scores' \ song_scores
                  \subseteq {[path |-> inv'.file, score |-> DEFAULT_SCORE]}
       /\ inv'.command = "previous" => song_scores' = song_scores]_vars

\* C16 witness: a score command has changed the score of an existing record
\* while the other track's record kept the default score
C16_Witness ==
    /\ inv.command = "score"
    /\ logged = <<UpdatedScore>>
    /\ get_score(song_scores, inv.file) # inv.score
    /\ \E row \in song_scores :
          row.path # inv.file /\ row.score = DEFAULT_SCORE

EnqueueOps == {"enqueue", "queue_full"}

\* C17: the steps of handle_state_change are separate transactions, so two
\* react invocations that observe the same new path can both pass the
\* same-song test before either appends its snapshot: an invocation that
\* read a last path other than its own song appends its snapshot whatever
\* the log holds by then and, no flag absorbing it, pushes the path it read
\* and makes its own enqueue attempt, once each and in that order.
C17_ReactNotAtomic ==
    \A p \in Procs :
        inv[p].command = "react" =>
            /\ "insert_snapshot" \in Range(OpsOf(p))
                  => inv[p].last_path # inv[p].file
            /\ inv[p].pc \notin {"start", "insert_snapshot"}
                    /\ inv[p].last_path # inv[p].file
                  => /\ Len(inv[p].issued) >= 1
                     /\ inv[p].issued[1] = Cmd("insert_snapshot", inv[p].file)
            /\ inv[p].pc \in {"get_score", "insert_score"}
                  => /\ Len(inv[p].issued) = 3
                     /\ inv[p].issued[2] = Cmd("push_history", inv[p].last_path)
                     /\ inv[p].issued[3].op \in EnqueueOps
            /\ Cardinality({i \in 1..Len(inv[p].issued) :
                    inv[p].issued[i].op \in {"insert_snapshot"}}) <= 1
            /\ Cardinality({i \in 1..Len(inv[p].issued) :
                    inv[p].issued[i].op \in {"push_history"}}) <= 1
            /\ Cardinality({i \in 1..Len(inv[p].issued) :
                    inv[p].issued[i].op \in EnqueueOps}) <= 1

\* C17 witness: two react invocations on the same song have both read the
\* same last path and both run to the end; the log ends with two entries of
\* that song, the history with two entries of the last path, and each
\* invocation made an enqueue attempt
C17_Witness ==
    /\ \A p \in Procs :
          /\ inv[p].command = "react"
          /\ inv[p].pc = "done"
          /\ inv[p].file = "b.mp3"
          /\ inv[p].last_path = "a.mp3"
          /\ \E i \in 1..Len(inv[p].issued) : inv[p].issued[i].op \in EnqueueOps
    /\ SubSeq(state_changes, Len(state_changes) - 1, Len(state_changes))
          = <<"b.mp3", "b.mp3">>
    /\ SubSeq(queue_history, Len(queue_history) - 1, Len(queue_history))
          = <<"a.mp3", "a.mp3">>

\* C18: the history stack only ever holds paths of real tracks, never the
\* sentinel that stands for "no last snapshot", so `previous` never tells the
\* player to play a value that is no track.
C18_HistoryHoldsTracks ==
    /\ \A i \in 1..Len(queue_history) : queue_history[i] \in Tracks
    /\ \A i \in 1..Len(cmds) : cmds[i].op = "play" => cmds[i].path \in Tracks

\* C19: a score command leaves the set of pending ignore flags, the snapshot
\* log and the history stack as they were, whatever handle the notifier
\* answers with.
C19_ScoreKeepsIgnoreFlags ==
    [][inv'.command = "score" =>
          /\ {flag_stack'[i] : i \in IgnoreRows(flag_stack')}
                = {flag_stack[i] : i \in IgnoreRows(flag_stack)}
          /\ state_changes' = state_changes
          /\ queue_history' = queue_history]_vars

\* C20: starting from at most MAX_QUEUE_SIZE entries, the commands of the
\* scheduler (the enqueue of react, the prepend of previous) never make the
\* player queue longer than MAX_QUEUE_SIZE.
C20_QueueWithinCapacity == Len(queue) <= MAX_QUEUE_SIZE

====
